---- MODULE Spec2Model ----
(***************************************************************************)
(* A model of the muxly scheduler (src/src/scheduler).                     *)
(*                                                                         *)
(* It models the Job Registry, ApiScheduler in api.rs: the jobs map and the *)
(* executions map, each behind a tokio RwLock, the public operations, and  *)
(* the detached task that run_job spawns; and the Cron Engine,             *)
(* CronScheduler in cron.rs: the job list, the running flag and the task   *)
(* handle, each behind a tokio Mutex, and the tick loop that start spawns; *)
(* and the Webhook Dispatcher, WebhookScheduler in webhook.rs: the         *)
(* webhooks map behind a tokio RwLock, registration, the HTTP route and    *)
(* the call of a webhook handler under the read guard.                     *)
(*                                                                         *)
(* Granularity: one action per critical section.  A step that needs a lock *)
(* is enabled only when the lock can be granted, so a caller or a task     *)
(* that waits for a lock is a process whose next action is disabled.  Two  *)
(* guards live across a waiting point and are therefore visible in the     *)
(* state: the executions write guard that create_execution keeps while it  *)
(* waits for the jobs write lock, and the jobs read guard that the         *)
(* detached task keeps while the (synchronous) handler runs.               *)
(*                                                                         *)
(* run_job builds its task handle with Arc::new(self.clone()); the task is *)
(* modelled as working on the maps and locks of the Registry it was        *)
(* spawned from (the handle designates the same Registry).                 *)
(*                                                                         *)
(* Option<T> is modelled as a set with at most one element: None is {} and *)
(* Some(v) is {v}.                                                         *)
(***************************************************************************)
EXTENDS Integers, FiniteSets, Sequences, TLC

\* ------------------------------------------------------------------ bounds
\* Number of job ids register_job can hand out.
MaxJobs == 1
\* Number of run_job calls in Spec (each draws one fresh execution id).
MaxCalls == 2
\* Number of execution ids, and of run_job calls in FairSpec.
MaxExecs == 3
\* Last value of the wall clock.
MaxTime == 1
\* Number of webhook ids register_webhook can hand out; number of requests.
MaxWebhooks == 2
MaxRequests == 1

\* ------------------------------------------------------------------ state
VARIABLES
    config,           \* ApiScheduler.config
    jobs,             \* ApiScheduler.jobs: job id -> RegisteredJob
    executions,       \* ApiScheduler.executions: execution id -> JobExecution
    jobs_lock,        \* guards alive on the jobs RwLock
    executions_lock,  \* guards alive on the executions RwLock
    next_job,         \* next fresh job id (Uuid::new_v4 in register_job)
    next_exec,        \* next fresh execution id (Uuid::new_v4 in run_job)
    now,              \* Utc::now()
    call,             \* per run_job call: position and locals of the caller
    task,             \* per run_job call: position and locals of its detached task
    ret,              \* response of the last completed register/unregister/set_enabled call
    cron_jobs,        \* CronScheduler.jobs: the Vec of ScheduledJob
    cron_jobs_lock,   \* holder of the guard on the CronScheduler.jobs Mutex
    running,          \* CronScheduler.running: the flag
    running_lock,     \* holder of the guard on the CronScheduler.running Mutex
    task_handle,      \* CronScheduler.task_handle
    loop,             \* per spawned tick loop: position and locals
    adding,           \* the add_job call that waits for the jobs Mutex
    stopping,         \* the stop call that waits for the tick loop
    next_cron_job,    \* next fresh cron job id (Uuid::new_v4 in add_job)
    cron_ret,         \* response of the last completed CronScheduler call
    webhooks,         \* WebhookScheduler.webhooks: webhook id -> RegisteredWebhook
    webhooks_lock,    \* guards alive on, and writers waiting for, the webhooks RwLock
    next_webhook,     \* next fresh webhook id (Uuid::new_v4 in register_webhook)
    registering,      \* register_webhook calls that wait for the write guard
    request,          \* per HTTP request: position, inputs and answer
    webhook_ret       \* response of the last completed register/unregister call

\* The state of the Job Registry (api.rs), of the Cron Engine (cron.rs), of
\* the Webhook Dispatcher (webhook.rs).
registry_vars == <<config, jobs, executions, jobs_lock, executions_lock,
                   next_job, next_exec, call, task, ret>>
cron_vars == <<cron_jobs, cron_jobs_lock, running, running_lock, task_handle,
               loop, adding, stopping, next_cron_job, cron_ret>>
webhook_vars == <<webhooks, webhooks_lock, next_webhook, registering, request,
                  webhook_ret>>
vars == <<config, jobs, executions, jobs_lock, executions_lock,
          next_job, next_exec, now, call, task, ret, cron_vars, webhook_vars>>

\* ------------------------------------------------------------------ values
None == {}
Some(v) == {v}
\* The value inside a Some.
Unwrap(o) == CHOOSE v \in o : TRUE

\* A job id no register_job call ever returned.
UnknownJob == 0
JobIds == 1..MaxJobs
ExecIds == 1..MaxExecs

\* JSON values that callers pass as parameters.
Payloads == {"alice"}
\* Handlers a host registers: a function of the parameters.
\*   echo  returns Ok(parameters)        fail  returns Err("nope")
\*   boom  panics with message "boom"
Handlers == {"echo", "fail", "boom"}

\* JobHandler: what a call of the handler on `parameters` produces.
JobHandler(h, parameters) ==
    CASE h = "echo" -> [kind |-> "Ok",
                        value |-> IF parameters = None THEN "null" ELSE Unwrap(parameters)]
      [] h = "fail" -> [kind |-> "Err", value |-> "nope"]
      [] OTHER      -> [kind |-> "Panic", value |-> "boom"]

\* ------------------------------------------------------------------ locks
\* tokio::sync::RwLock: any number of read guards, or one write guard.  The
\* lock is fair: requests are served first-in first-out, so a request made
\* while a writer waits (`waiting`) is served after that writer.
Unlocked == [writer |-> None, readers |-> {}, waiting |-> {}]
\* A new request for the write guard, or for a read guard, can be granted.
CanWrite(lock) == lock.writer = None /\ lock.readers = {} /\ lock.waiting = {}
CanRead(lock) == lock.writer = None /\ lock.waiting = {}
\* The write request of `who`, made earlier, can be granted.
CanWriteQueued(lock, who) ==
    lock.writer = None /\ lock.readers = {} /\ who \in lock.waiting

\* ------------------------------------------------------------------ maps
Insert(map, k, v) == [x \in DOMAIN map \cup {k} |-> IF x = k THEN v ELSE map[x]]
Remove(map, k) == [x \in DOMAIN map \ {k} |-> map[x]]
EmptyMap == [x \in {} |-> 0]

Response(op, id, res) == [op |-> op, id |-> id, res |-> res]

IdleCall == [pc |-> "idle", execution |-> None, registered |-> FALSE,
             enabled |-> FALSE, ret |-> None]
IdleTask == [pc |-> "none", handler |-> None, started |-> None,
             result |-> None, execution_end |-> None, invoked |-> 0]

\* ApiSchedulerConfig.  The three limits are optional; a configuration that
\* sets them uses the values below.
max_concurrent_jobs == 1
job_timeout_seconds == 1
max_history_size == 1
ApiSchedulerConfig(enabled, limited) ==
    [enabled |-> enabled,
     max_concurrent_jobs |-> IF limited THEN Some(max_concurrent_jobs) ELSE None,
     job_timeout_seconds |-> IF limited THEN Some(job_timeout_seconds) ELSE None,
     max_history_size |-> IF limited THEN Some(max_history_size) ELSE None]

\* ApiScheduler::new: empty maps, free locks; the configuration is fixed at
\* construction.
new(configs) ==
    /\ config \in configs
    /\ jobs = EmptyMap
    /\ executions = EmptyMap
    /\ jobs_lock = Unlocked
    /\ executions_lock = Unlocked
    /\ next_job = 1
    /\ next_exec = 1
    /\ now = 0
    /\ call = [e \in ExecIds |-> IdleCall]
    /\ task = [e \in ExecIds |-> IdleTask]
    /\ ret = Response("new", 0, "Ok")

\* ------------------------------------------------------------- cron state
\* Number of tick loops start can spawn, of cron job ids add_job can hand out.
MaxLoops == 2
MaxCronJobs == 2
\* Number of add_job calls in CronSpec.
MaxCronAdds == 1
\* Last value of the clock under the Cron Engine; how far ahead of the clock a
\* schedule is searched for its next fire time.
MaxCronTime == 6
Horizon == 2
LoopIds == 1..MaxLoops
CronJobIds == 1..MaxCronJobs

\* A tick loop that is not spawned; no add_job, no stop in progress.
IdleLoop == [pc |-> "none", now |-> 0, i |-> 0, wake |-> 0, fired |-> <<>>]
NotAdding == None
NotStopping == [pc |-> "idle", handle |-> None, deadline |-> 0]
CronResponse(op, res) == [op |-> op, res |-> res]
\* The response of a call that names a job (add_job returns the id).
CronJobResponse(op, id, res) == [op |-> op, id |-> id, res |-> res]

\* CronScheduler::new: no job, no task handle, not running.
CronScheduler_new ==
    /\ cron_jobs = <<>>
    /\ cron_jobs_lock = None
    /\ running = FALSE
    /\ running_lock = None
    /\ task_handle = None
    /\ loop = [l \in LoopIds |-> IdleLoop]
    /\ adding = NotAdding
    /\ stopping = NotStopping
    /\ next_cron_job = 1
    /\ cron_ret = CronResponse("new", "Ok")

\* ---------------------------------------------------------- webhook state
WebhookIds == 1..MaxWebhooks
RequestIds == 1..MaxRequests
\* A webhook id no register_webhook call ever returned.
UnknownWebhook == 0

\* RegisteredWebhook.
RegisteredWebhook(id, path, handler, secret, enabled) ==
    [id |-> id, path |-> path, handler |-> handler, secret |-> secret,
     enabled |-> enabled]
\* WebhookRequest: the JSON body of a call.
WebhookRequest(payload, signature) == [payload |-> payload, signature |-> signature]
\* WebhookResponse: the JSON body of an answer.
WebhookResponse(status, message, data) ==
    [status |-> status, message |-> message, data |-> data]
\* Result<T>: Ok(value) and Err(anyhow!(message)).
Ok(value) == [kind |-> "Ok", value |-> value]
Err(message) == [kind |-> "Err", value |-> message]

\* A request that has not arrived.
IdleRequest == [pc |-> "idle", url |-> <<>>, path |-> "", body |-> None,
                webhook |-> None, result |-> None, response |-> None]
\* The response of register_webhook and unregister_webhook.
WebhookRet(op, id, path, res) == [op |-> op, id |-> id, path |-> path, res |-> res]

\* WebhookScheduler::new: no webhook, the lock free.
WebhookScheduler_new ==
    /\ webhooks = EmptyMap
    /\ webhooks_lock = Unlocked
    /\ next_webhook = 1
    /\ registering = EmptyMap
    /\ request = [r \in RequestIds |-> IdleRequest]
    /\ webhook_ret = WebhookRet("new", 0, "", "Ok")

\* SchedulerIntegration::new builds the Registry, the Cron Engine and the
\* Webhook Dispatcher.
\* A Registry built without limits, enabled or not.
Init ==
    /\ new({ApiSchedulerConfig(enabled, FALSE) : enabled \in BOOLEAN})
    /\ CronScheduler_new
    /\ WebhookScheduler_new
\* A Registry built enabled and with the three limits set.
LimitedInit ==
    /\ new({ApiSchedulerConfig(TRUE, TRUE)})
    /\ CronScheduler_new
    /\ WebhookScheduler_new

\* The wall clock advances.
Tick ==
    /\ now < MaxTime
    /\ now' = now + 1
    /\ UNCHANGED <<cron_vars, webhook_vars, config, jobs, executions, jobs_lock, executions_lock,
                   next_job, next_exec, call, task, ret>>

\* ---------------------------------------------------------- job management
Names == {"sync"}
Descriptions == {None}

\* Ids a caller can name: every id handed out so far, and one never handed out
\* (an id is a fresh UUID: no caller names one before register_job returned it).
AllIds == {UnknownJob} \cup JobIds
Nameable(id) == id = UnknownJob \/ id < next_job

\* register_job: refuse if the scheduler is disabled, else store a new job
\* under a fresh id.
register_job(name, description, handler, enabled) ==
    /\ IF ~config.enabled
       THEN /\ ret' = Response("register_job", UnknownJob, "Disabled")
            /\ UNCHANGED <<jobs, next_job>>
       ELSE /\ next_job <= MaxJobs
            /\ CanWrite(jobs_lock)
            /\ jobs' = Insert(jobs, next_job,
                              [id |-> next_job, name |-> name,
                               description |-> description, handler |-> handler,
                               enabled |-> enabled, last_execution |-> None,
                               created_at |-> now, updated_at |-> now])
            /\ next_job' = next_job + 1
            /\ ret' = Response("register_job", next_job, "Ok")
    /\ UNCHANGED <<cron_vars, webhook_vars, config, executions, jobs_lock, executions_lock,
                   next_exec, now, call, task>>

\* unregister_job that reports success and leaves the job in the map.
unregister_job_keep(id) ==
    /\ IF ~config.enabled
       THEN /\ ret' = Response("unregister_job", id, "Disabled")
            /\ UNCHANGED jobs
       ELSE /\ CanWrite(jobs_lock)
            /\ IF id \in DOMAIN jobs
               THEN /\ jobs' = jobs
                    /\ ret' = Response("unregister_job", id, "Ok")
               ELSE /\ ret' = Response("unregister_job", id, "NotFound")
                    /\ UNCHANGED jobs
    /\ UNCHANGED <<cron_vars, webhook_vars, config, executions, jobs_lock, executions_lock,
                   next_job, next_exec, now, call, task>>

\* unregister_job: refuse if the scheduler is disabled, else remove the job
\* from the jobs map (the executions map is not touched).
unregister_job(id) ==
    /\ IF ~config.enabled
       THEN /\ ret' = Response("unregister_job", id, "Disabled")
            /\ UNCHANGED jobs
       ELSE /\ CanWrite(jobs_lock)
            /\ IF id \in DOMAIN jobs
               THEN /\ jobs' = Remove(jobs, id)
                    /\ ret' = Response("unregister_job", id, "Ok")
               ELSE /\ ret' = Response("unregister_job", id, "NotFound")
                    /\ UNCHANGED jobs
    /\ UNCHANGED <<cron_vars, webhook_vars, config, executions, jobs_lock, executions_lock,
                   next_job, next_exec, now, call, task>>

\* set_job_enabled that flips the flag of the job instead of setting it.
set_job_enabled_flip(id, enabled) ==
    /\ IF ~config.enabled
       THEN /\ ret' = Response("set_job_enabled", id, "Disabled")
            /\ UNCHANGED jobs
       ELSE /\ CanWrite(jobs_lock)
            /\ IF id \in DOMAIN jobs
               THEN /\ jobs' = [jobs EXCEPT ![id].enabled = ~jobs[id].enabled,
                                            ![id].updated_at = now]
                    /\ ret' = Response("set_job_enabled", id, "Ok")
               ELSE /\ ret' = Response("set_job_enabled", id, "NotFound")
                    /\ UNCHANGED jobs
    /\ UNCHANGED <<cron_vars, webhook_vars, config, executions, jobs_lock, executions_lock,
                   next_job, next_exec, now, call, task>>

\* set_job_enabled: refuse if the scheduler is disabled, else set the flag and
\* updated_at of the job, or report that the job is not there.
set_job_enabled(id, enabled) ==
    /\ IF ~config.enabled
       THEN /\ ret' = Response("set_job_enabled", id, "Disabled")
            /\ UNCHANGED jobs
       ELSE /\ CanWrite(jobs_lock)
            /\ IF id \in DOMAIN jobs
               THEN /\ jobs' = [jobs EXCEPT ![id].enabled = enabled,
                                            ![id].updated_at = now]
                    /\ ret' = Response("set_job_enabled", id, "Ok")
               ELSE /\ ret' = Response("set_job_enabled", id, "NotFound")
                    /\ UNCHANGED jobs
    /\ UNCHANGED <<cron_vars, webhook_vars, config, executions, jobs_lock, executions_lock,
                   next_job, next_exec, now, call, task>>

\* JobDescription: the projection of a job without its handler.
JobDescription(job) ==
    [id |-> job.id, name |-> job.name, description |-> job.description,
     enabled |-> job.enabled, last_execution |-> job.last_execution]

\* get_job: the projection of one job, or NotFound.  The queries change no
\* state; each is the value the call returns once its read lock is granted.
get_job(id) ==
    IF id \in DOMAIN jobs
    THEN [res |-> "Ok", val |-> Some(JobDescription(jobs[id]))]
    ELSE [res |-> "NotFound", val |-> None]

\* get_jobs: the projections of the jobs that pass the enabled filter.
get_jobs(enabled_filter) ==
    {JobDescription(jobs[id]) :
        id \in {j \in DOMAIN jobs :
                  enabled_filter = None \/ jobs[j].enabled = Unwrap(enabled_filter)}}

\* get_execution: a copy of one execution record, or NotFound.
get_execution(id) ==
    IF id \in DOMAIN executions
    THEN [res |-> "Ok", val |-> Some(executions[id])]
    ELSE [res |-> "NotFound", val |-> None]

\* list_execution_history: the ids of the stored executions of one job.
list_execution_history(job_id) ==
    {e \in DOMAIN executions : executions[e].job_id = job_id}

\* ------------------------------------------------------------------ run_job
\* The guard a run_job caller or its task holds on a lock.
Caller(e) == <<"run_job", e>>
Detached(e) == <<"task", e>>

\* run_job, up to the call of create_execution: draw a fresh execution id,
\* read the clock and build the Pending record.  No check of the
\* configuration, of the job's presence or of its enabled flag is made.
\* `registered` and `enabled` only remember what the maps held at the call.
run_job(job_id, parameters) ==
    /\ next_exec \in ExecIds
    /\ call[next_exec].pc = "idle"
    /\ call' = [call EXCEPT ![next_exec] =
                    [pc |-> "create_execution",
                     execution |-> Some([id |-> next_exec, job_id |-> job_id,
                                         status |-> "Pending",
                                         parameters |-> parameters,
                                         start_time |-> now, end_time |-> None,
                                         result |-> None, error |-> None]),
                     registered |-> job_id \in DOMAIN jobs,
                     enabled |-> job_id \in DOMAIN jobs /\ jobs[job_id].enabled,
                     ret |-> None]]
    /\ next_exec' = next_exec + 1
    /\ UNCHANGED <<cron_vars, webhook_vars, config, jobs, executions, jobs_lock, executions_lock,
                   next_job, now, task, ret>>

\* create_execution, first half: take the executions write lock, insert the
\* record and ask for the jobs write lock.  The executions guard stays alive
\* until create_execution returns.
create_execution_insert(e) ==
    /\ call[e].pc = "create_execution"
    /\ CanWrite(executions_lock)
    /\ executions_lock' = [executions_lock EXCEPT !.writer = Some(Caller(e))]
    /\ executions' = Insert(executions, e, Unwrap(call[e].execution))
    /\ jobs_lock' = [jobs_lock EXCEPT !.waiting = @ \cup {Caller(e)}]
    /\ call' = [call EXCEPT ![e].pc = "create_execution_jobs"]
    /\ UNCHANGED <<cron_vars, webhook_vars, config, jobs, next_job, next_exec, now, task, ret>>

\* create_execution, second half, and the rest of run_job: once the jobs
\* write lock is granted, point the job (if present) at the new execution,
\* drop both guards, spawn the detached task and return Ok.
create_execution_link(e) ==
    /\ call[e].pc = "create_execution_jobs"
    /\ CanWriteQueued(jobs_lock, Caller(e))
    /\ LET job_id == Unwrap(call[e].execution).job_id IN
         jobs' = IF job_id \in DOMAIN jobs
                 THEN [jobs EXCEPT ![job_id].last_execution = Some(e)]
                 ELSE jobs
    /\ jobs_lock' = [jobs_lock EXCEPT !.waiting = @ \ {Caller(e)}]
    /\ executions_lock' = [executions_lock EXCEPT !.writer = None]
    /\ task' = [task EXCEPT ![e].pc = "set_running"]
    /\ call' = [call EXCEPT ![e].pc = "returned", ![e].ret = Some("Ok")]
    /\ UNCHANGED <<cron_vars, webhook_vars, config, executions, next_job, next_exec, now, ret>>

\* task_set_running without the status update.
task_set_running_skip(e) ==
    /\ task[e].pc = "set_running"
    /\ CanWrite(executions_lock)
    /\ task' = [task EXCEPT ![e].pc = "get_handler"]
    /\ UNCHANGED <<cron_vars, webhook_vars, config, jobs, executions, jobs_lock, executions_lock,
                   next_job, next_exec, now, call, ret>>

\* Detached task, first block: under the executions write lock, mark the
\* record Running if it is (still) stored.
task_set_running(e) ==
    /\ task[e].pc = "set_running"
    /\ CanWrite(executions_lock)
    /\ executions' = IF e \in DOMAIN executions
                     THEN [executions EXCEPT ![e].status = "Running"]
                     ELSE executions
    /\ task' = [task EXCEPT ![e].pc = "get_handler"]
    /\ UNCHANGED <<cron_vars, webhook_vars, config, jobs, jobs_lock, executions_lock,
                   next_job, next_exec, now, call, ret>>

\* Detached task, second block: take the jobs read lock and look the job up.
\* If it is there its handler is called, with the read guard alive; if not
\* the result is Err("Job not found") and the guard is dropped at once.
task_get_handler(e) ==
    /\ task[e].pc = "get_handler"
    /\ CanRead(jobs_lock)
    /\ LET job_id == Unwrap(call[e].execution).job_id IN
         IF job_id \in DOMAIN jobs
         THEN /\ jobs_lock' = [jobs_lock EXCEPT !.readers = @ \cup {Detached(e)}]
              /\ task' = [task EXCEPT ![e].pc = "in_handler",
                                      ![e].handler = Some(jobs[job_id].handler),
                                      ![e].started = Some(now),
                                      ![e].invoked = @ + 1]
         ELSE /\ task' = [task EXCEPT ![e].pc = "finalize",
                                      ![e].result = Some([kind |-> "Err",
                                                          value |-> "Job not found"]),
                                      ![e].execution_end = Some(now)]
              /\ UNCHANGED jobs_lock
    /\ UNCHANGED <<cron_vars, webhook_vars, config, jobs, executions, executions_lock,
                   next_job, next_exec, now, call, ret>>

\* handler_return that keeps the read guard on the jobs lock.
handler_return_keep_guard(e) ==
    /\ task[e].pc = "in_handler"
    /\ LET out == JobHandler(Unwrap(task[e].handler),
                             Unwrap(call[e].execution).parameters) IN
         /\ out.kind # "Panic"
         /\ task' = [task EXCEPT ![e].pc = "finalize",
                                 ![e].result = Some(out),
                                 ![e].execution_end = Some(now)]
    /\ UNCHANGED <<cron_vars, webhook_vars, config, jobs, executions, jobs_lock,
                   executions_lock, next_job, next_exec, now, call, ret>>

\* The handler returns Ok or Err: the read guard is dropped and the clock is
\* read for the end time.
handler_return(e) ==
    /\ task[e].pc = "in_handler"
    /\ LET out == JobHandler(Unwrap(task[e].handler),
                             Unwrap(call[e].execution).parameters) IN
         /\ out.kind # "Panic"
         /\ task' = [task EXCEPT ![e].pc = "finalize",
                                 ![e].result = Some(out),
                                 ![e].execution_end = Some(now)]
    /\ jobs_lock' = [jobs_lock EXCEPT !.readers = @ \ {Detached(e)}]
    /\ UNCHANGED <<cron_vars, webhook_vars, config, jobs, executions, executions_lock,
                   next_job, next_exec, now, call, ret>>

\* The handler panics: the panic unwinds the detached task, which drops the
\* read guard and ends; nothing after the handler call runs.
handler_panic(e) ==
    /\ task[e].pc = "in_handler"
    /\ JobHandler(Unwrap(task[e].handler),
                  Unwrap(call[e].execution).parameters).kind = "Panic"
    /\ task' = [task EXCEPT ![e].pc = "panicked"]
    /\ jobs_lock' = [jobs_lock EXCEPT !.readers = @ \ {Detached(e)}]
    /\ UNCHANGED <<cron_vars, webhook_vars, config, jobs, executions, executions_lock,
                   next_job, next_exec, now, call, ret>>

\* Finalized that leaves end_time unset when the handler failed.
Finalized_no_end_on_error(exec, result, execution_end) ==
    IF result.kind = "Ok"
    THEN [exec EXCEPT !.end_time = Some(execution_end),
                      !.status = "Completed",
                      !.result = Some(result.value)]
    ELSE [exec EXCEPT !.status = "Failed",
                      !.error = Some(result.value)]

\* The record of an execution after the task's result has been written to it.
Finalized(exec, result, execution_end) ==
    IF result.kind = "Ok"
    THEN [exec EXCEPT !.end_time = Some(execution_end),
                      !.status = "Completed",
                      !.result = Some(result.value)]
    ELSE [exec EXCEPT !.end_time = Some(execution_end),
                      !.status = "Failed",
                      !.error = Some(result.value)]

\* Detached task, third block: under the executions write lock, write end
\* time, status and result or error to the record if it is stored.
task_finalize(e) ==
    /\ task[e].pc = "finalize"
    /\ CanWrite(executions_lock)
    /\ executions' = IF e \in DOMAIN executions
                     THEN [executions EXCEPT ![e] =
                              Finalized(@, Unwrap(task[e].result),
                                        Unwrap(task[e].execution_end))]
                     ELSE executions
    /\ task' = [task EXCEPT ![e].pc = "update_job"]
    /\ UNCHANGED <<cron_vars, webhook_vars, config, jobs, jobs_lock, executions_lock,
                   next_job, next_exec, now, call, ret>>

\* Detached task, last block: under the jobs write lock, point the job (if
\* present) at this execution; the task ends.
task_update_job(e) ==
    /\ task[e].pc = "update_job"
    /\ CanWrite(jobs_lock)
    /\ LET job_id == Unwrap(call[e].execution).job_id IN
         jobs' = IF job_id \in DOMAIN jobs
                 THEN [jobs EXCEPT ![job_id].last_execution = Some(e)]
                 ELSE jobs
    /\ task' = [task EXCEPT ![e].pc = "done"]
    /\ UNCHANGED <<cron_vars, webhook_vars, config, executions, jobs_lock, executions_lock,
                   next_job, next_exec, now, call, ret>>

\* --------------------------------------------------------------- HTTP layer
\* What a returned run_job call hands to its caller: Ok(()) or an error
\* message.  The id of the execution it created is not part of it.
run_job_output(e) == [res |-> call[e].ret, execution_id |-> None]

\* ApiScheduler::routes: the routes the Registry mounts.
routes ==
    {<<"GET", "/jobs">>, <<"GET", "/jobs/:id">>,
     <<"GET", "/executions">>, <<"GET", "/executions/:id">>}

\* The HTTP handler run_job: the answer it builds from the output of
\* ApiScheduler::run_job for the job id of the path.
http_run_job(id, output) ==
    IF output.res = Some("Ok")
    THEN [status |-> "ACCEPTED",
          body |-> [status |-> "success", message |-> <<"Job", id, "started">>]]
    ELSE [status |-> "BAD_REQUEST", body |-> [error |-> output.res]]

\* ------------------------------------------------------------- cron engine
\* The Cron Engine, CronScheduler in cron.rs.  A tick loop is a spawned task;
\* add_job and stop are calls that wait (for the jobs Mutex, for the loop).
\* Time is read off the same clock; it passes only while every task waits for
\* a lock, a timer or a handler.

\* Cron expressions, each standing for the fire times it has.
Schedules == {"every_second", "every_other_second", "never"}
Matches(schedule, t) ==
    CASE schedule = "every_second" -> TRUE
      [] schedule = "every_other_second" -> t % 2 = 0
      [] schedule = "never" -> FALSE

\* Schedule::upcoming(Utc).next() read at time t: the first fire time after t.
upcoming(schedule, t) ==
    LET times == {u \in (t + 1)..(t + Horizon) : Matches(schedule, u)}
    IN IF times = {} THEN None
       ELSE Some(CHOOSE u \in times : \A v \in times : u <= v)

\* Cron handlers: Fn() -> Result<()> that returns Ok, returns Err, or panics.
CronHandlers == {"ok", "err", "boom"}

\* tokio::time::timeout in stop, sleep in the tick loop, in seconds.
StopTimeout == 5
SleepSeconds == 1

\* ScheduledJob::new.
ScheduledJob_new(id, schedule, handler, enabled, catch_up) ==
    [id |-> id, schedule |-> schedule, handler |-> handler,
     next_run |-> None, last_run |-> None,
     enabled |-> enabled, catch_up |-> catch_up]

\* A tick loop task has ended: it left the loop, or its handler panicked.
Finished(l) == loop[l].pc \in {"exited", "panicked"}
Unspawned == {l \in LoopIds : loop[l].pc = "none"}

\* add_job, up to the lock of the jobs Mutex: draw a fresh id, build the job
\* and initialise its next_run from the clock.
add_job(schedule, handler, enabled, catch_up) ==
    /\ adding = NotAdding
    /\ next_cron_job \in CronJobIds
    /\ adding' = Some([ScheduledJob_new(next_cron_job, schedule, handler,
                                        enabled, catch_up)
                         EXCEPT !.next_run = upcoming(schedule, now)])
    /\ next_cron_job' = next_cron_job + 1
    /\ UNCHANGED <<registry_vars, webhook_vars, now, cron_jobs, cron_jobs_lock, running,
                   running_lock, task_handle, loop, stopping, cron_ret>>

\* add_job, under the jobs Mutex: push the job and return its id.
add_job_push ==
    /\ adding # NotAdding
    /\ cron_jobs_lock = None
    /\ cron_jobs' = Append(cron_jobs, Unwrap(adding))
    /\ adding' = NotAdding
    /\ cron_ret' = CronJobResponse("add_job", Unwrap(adding).id, "Ok")
    /\ UNCHANGED <<registry_vars, webhook_vars, now, cron_jobs_lock, running, running_lock,
                   task_handle, loop, stopping, next_cron_job>>

\* CronScheduler::get_jobs: a copy of the job list, read under the jobs Mutex.
cron_get_jobs == cron_jobs
\* CronScheduler::get_job: the first job of the list with that id, if any.
cron_get_job(id) ==
    LET found == {i \in 1..Len(cron_jobs) : cron_jobs[i].id = id}
    IN IF found = {} THEN None
       ELSE Some(cron_jobs[CHOOSE i \in found : \A k \in found : i <= k])

\* remove_job that reports success and leaves the job in the list.
remove_job_keep(id) ==
    /\ cron_jobs_lock = None
    /\ cron_jobs' = cron_jobs
    /\ cron_ret' = CronJobResponse("remove_job", id,
                                   IF cron_get_job(id) = None
                                   THEN "NotFound" ELSE "Ok")
    /\ UNCHANGED <<registry_vars, webhook_vars, now, cron_jobs_lock, running, running_lock,
                   task_handle, loop, adding, stopping, next_cron_job>>

\* remove_job: under the jobs Mutex, drop the job of that id.
remove_job(id) ==
    /\ cron_jobs_lock = None
    /\ cron_jobs' = SelectSeq(cron_jobs, LAMBDA j : j.id # id)
    /\ cron_ret' = CronJobResponse("remove_job", id,
                                   IF Len(cron_jobs') = Len(cron_jobs)
                                   THEN "NotFound" ELSE "Ok")
    /\ UNCHANGED <<registry_vars, webhook_vars, now, cron_jobs_lock, running, running_lock,
                   task_handle, loop, adding, stopping, next_cron_job>>

\* CronScheduler::set_job_enabled: under the jobs Mutex, find the job; the
\* job's enabled field is not written.
cron_set_job_enabled(id, enabled) ==
    /\ cron_jobs_lock = None
    /\ cron_ret' = [op |-> "set_job_enabled", id |-> id, enabled |-> enabled,
                    res |-> IF \E i \in 1..Len(cron_jobs) : cron_jobs[i].id = id
                            THEN "Ok" ELSE "NotFound"]
    /\ UNCHANGED <<registry_vars, webhook_vars, now, cron_jobs, cron_jobs_lock, running,
                   running_lock, task_handle, loop, adding, stopping,
                   next_cron_job>>

\* Tick loop l has asked for the running Mutex to read the flag: it has come
\* back from its sleep, or it was spawned before the clock last advanced (a
\* spawned task runs before time passes; `wake` of a spawned loop is the
\* time from which it has run).  The Mutex serves its waiters first-in
\* first-out: a start or stop call made now gets the Mutex after that loop.
Queued(l) == loop[l].pc = "check_flag" /\ loop[l].wake > 0 /\ now >= loop[l].wake

\* start that does not look at the flag: it always spawns a tick loop.
start_again ==
    /\ running_lock = None
    /\ \A l \in LoopIds : ~Queued(l)
    /\ Unspawned # {}
    /\ LET l == CHOOSE u \in Unspawned : \A v \in Unspawned : u <= v
       IN /\ loop' = [loop EXCEPT ![l].pc = "check_flag",
                                   ![l].wake = now + SleepSeconds]
          /\ task_handle' = Some(l)
    /\ running' = TRUE
    /\ cron_ret' = CronResponse("start", "Ok")
    /\ UNCHANGED <<registry_vars, webhook_vars, now, cron_jobs, cron_jobs_lock, running_lock,
                   adding, stopping, next_cron_job>>

\* start: under the running Mutex, return if the flag is set; else set it,
\* spawn a tick loop and store its handle.
start ==
    /\ running_lock = None
    /\ \A l \in LoopIds : ~Queued(l)
    /\ IF running
       THEN UNCHANGED <<running, task_handle, loop>>
       ELSE /\ Unspawned # {}
            /\ LET l == CHOOSE u \in Unspawned : \A v \in Unspawned : u <= v
               IN /\ loop' = [loop EXCEPT ![l].pc = "check_flag",
                                           ![l].wake = now + SleepSeconds]
                  /\ task_handle' = Some(l)
            /\ running' = TRUE
    /\ cron_ret' = CronResponse("start", "Ok")
    /\ UNCHANGED <<registry_vars, webhook_vars, now, cron_jobs, cron_jobs_lock, running_lock,
                   adding, stopping, next_cron_job>>

\* stop, up to the wait for the tick loop: under the running Mutex, return
\* if the flag is clear; else clear it, take the task handle and wait for the
\* task with a timeout.  The guard on the running Mutex stays alive until
\* stop returns.
stop ==
    /\ running_lock = None
    /\ \A l \in LoopIds : ~Queued(l)
    /\ stopping.pc = "idle"
    /\ IF running /\ task_handle # None
       THEN /\ running' = FALSE
            /\ running_lock' = Some("stop")
            /\ stopping' = [pc |-> "waiting", handle |-> task_handle,
                            deadline |-> now + StopTimeout]
            /\ task_handle' = None
            /\ UNCHANGED cron_ret
       ELSE /\ running' = FALSE
            /\ cron_ret' = CronResponse("stop", "Ok")
            /\ UNCHANGED <<running_lock, stopping, task_handle>>
    /\ UNCHANGED <<registry_vars, webhook_vars, now, cron_jobs, cron_jobs_lock, loop,
                   adding, next_cron_job>>

\* stop, the task ended within the timeout: Ok.
stop_joined ==
    /\ stopping.pc = "waiting"
    /\ Finished(Unwrap(stopping.handle))
    /\ stopping' = NotStopping
    /\ running_lock' = None
    /\ cron_ret' = CronResponse("stop", "Ok")
    /\ UNCHANGED <<registry_vars, webhook_vars, now, cron_jobs, cron_jobs_lock, running,
                   task_handle, loop, adding, next_cron_job>>

\* stop without the timeout: it returns only when the task has ended.
stop_timeout_never ==
    /\ stopping.pc = "waiting"
    /\ Finished(Unwrap(stopping.handle))
    /\ now >= stopping.deadline
    /\ stopping' = NotStopping
    /\ running_lock' = None
    /\ cron_ret' = CronResponse("stop", "Timeout")
    /\ UNCHANGED <<registry_vars, webhook_vars, now, cron_jobs, cron_jobs_lock, running,
                   task_handle, loop, adding, stopping, next_cron_job>>

\* stop, the timeout elapsed first: the handle is dropped, which leaves the
\* task running, and stop returns Err("Scheduler did not stop within timeout").
stop_timeout ==
    /\ stopping.pc = "waiting"
    /\ ~Finished(Unwrap(stopping.handle))
    /\ now >= stopping.deadline
    /\ stopping' = NotStopping
    /\ running_lock' = None
    /\ cron_ret' = CronResponse("stop", "Timeout")
    /\ UNCHANGED <<registry_vars, webhook_vars, now, cron_jobs, cron_jobs_lock, running,
                   task_handle, loop, adding, next_cron_job>>

\* Tick loop, the while condition: lock the running Mutex, read the flag and
\* drop the guard; then read the clock, or leave the loop.
loop_check_flag(l) ==
    /\ loop[l].pc = "check_flag"
    /\ running_lock = None
    /\ loop' = [loop EXCEPT ![l] =
                  IF running
                  THEN [IdleLoop EXCEPT !.pc = "lock_jobs", !.now = now]
                  ELSE [IdleLoop EXCEPT !.pc = "exited"]]
    /\ UNCHANGED <<registry_vars, webhook_vars, now, cron_jobs, cron_jobs_lock, running,
                   running_lock, task_handle, adding, stopping,
                   next_cron_job, cron_ret>>

\* Tick loop that goes on to the scan without the jobs Mutex being free.
loop_lock_jobs_barge(l) ==
    /\ loop[l].pc = "lock_jobs"
    /\ adding = NotAdding
    /\ cron_jobs_lock' = Some(l)
    /\ loop' = [loop EXCEPT ![l].pc = "scan", ![l].i = 1]
    /\ UNCHANGED <<registry_vars, webhook_vars, now, cron_jobs, running, running_lock,
                   task_handle, adding, stopping, next_cron_job, cron_ret>>

\* Tick loop: lock the jobs Mutex (waiters are served first-in first-out, so
\* after an add_job that waits).  The guard lives to the end of the loop body.
loop_lock_jobs(l) ==
    /\ loop[l].pc = "lock_jobs"
    /\ cron_jobs_lock = None
    /\ adding = NotAdding
    /\ cron_jobs_lock' = Some(l)
    /\ loop' = [loop EXCEPT ![l].pc = "scan", ![l].i = 1]
    /\ UNCHANGED <<registry_vars, webhook_vars, now, cron_jobs, running, running_lock,
                   task_handle, adding, stopping, next_cron_job, cron_ret>>

\* Tick loop, one job of the for loop: if its next_run is set and not after
\* the tick's now, run it; ScheduledJob::run returns at once if the job is
\* disabled and calls the handler if not.  After the last job, sleep.
loop_scan(l) ==
    /\ loop[l].pc = "scan"
    /\ LET i == loop[l].i IN
         IF i > Len(cron_jobs)
         THEN loop' = [loop EXCEPT ![l].pc = "sleep", ![l].i = 0,
                                   ![l].wake = now + SleepSeconds]
         ELSE LET job == cron_jobs[i] IN
              IF /\ job.next_run # None
                 /\ Unwrap(job.next_run) <= loop[l].now
                 /\ job.enabled
              THEN loop' = [loop EXCEPT ![l].pc = "in_handler",
                                        ![l].fired = Append(@, job.id)]
              ELSE loop' = [loop EXCEPT ![l].i = i + 1]
    /\ UNCHANGED <<registry_vars, webhook_vars, now, cron_jobs, cron_jobs_lock, running,
                   running_lock, task_handle, adding, stopping,
                   next_cron_job, cron_ret>>

\* ScheduledJob::run, the handler returned Ok: write last_run from the clock,
\* update next_run from the schedule and the clock; on to the next job.
cron_handler_ok(l) ==
    /\ loop[l].pc = "in_handler"
    /\ LET i == loop[l].i IN
         /\ cron_jobs[i].handler = "ok"
         /\ cron_jobs' = [cron_jobs EXCEPT
                            ![i].last_run = Some(now),
                            ![i].next_run = upcoming(cron_jobs[i].schedule, now)]
         /\ loop' = [loop EXCEPT ![l].pc = "scan", ![l].i = i + 1]
    /\ UNCHANGED <<registry_vars, webhook_vars, now, cron_jobs_lock, running, running_lock,
                   task_handle, adding, stopping, next_cron_job, cron_ret>>

\* ScheduledJob::run, the handler returned Err: run returns the error, which
\* the loop drops; last_run and next_run are not written.
cron_handler_err(l) ==
    /\ loop[l].pc = "in_handler"
    /\ LET i == loop[l].i IN
         /\ cron_jobs[i].handler = "err"
         /\ loop' = [loop EXCEPT ![l].pc = "scan", ![l].i = i + 1]
    /\ UNCHANGED <<registry_vars, webhook_vars, now, cron_jobs, cron_jobs_lock, running,
                   running_lock, task_handle, adding, stopping,
                   next_cron_job, cron_ret>>

\* The handler panicked: the loop task ends, its guard on the jobs Mutex is
\* dropped by the unwinding.
cron_handler_panic(l) ==
    /\ loop[l].pc = "in_handler"
    /\ cron_jobs[loop[l].i].handler = "boom"
    /\ loop' = [loop EXCEPT ![l].pc = "panicked"]
    /\ cron_jobs_lock' = None
    /\ UNCHANGED <<registry_vars, webhook_vars, now, cron_jobs, running, running_lock,
                   task_handle, adding, stopping, next_cron_job, cron_ret>>

\* Tick loop, the sleep is over: the loop body ends, which drops the guard
\* on the jobs Mutex; back to the while condition.
loop_wake(l) ==
    /\ loop[l].pc = "sleep"
    /\ now >= loop[l].wake
    /\ cron_jobs_lock' = None
    /\ loop' = [loop EXCEPT ![l].pc = "check_flag"]
    /\ UNCHANGED <<registry_vars, webhook_vars, now, cron_jobs, running, running_lock,
                   task_handle, adding, stopping, next_cron_job, cron_ret>>

\* A task that is neither waiting for a lock, a timer or the loop, nor inside
\* a handler, runs before the clock advances.
Runnable ==
    \/ \E l \in LoopIds :
         \/ loop[l].pc = "check_flag" /\ running_lock = None
         \/ loop[l].pc = "lock_jobs" /\ cron_jobs_lock = None
         \/ loop[l].pc = "scan"
         \/ loop[l].pc = "sleep" /\ now >= loop[l].wake
    \/ adding # NotAdding /\ cron_jobs_lock = None
    \/ /\ stopping.pc = "waiting"
       /\ (Finished(Unwrap(stopping.handle)) \/ now >= stopping.deadline)

\* The clock advances under the Cron Engine.
CronTick ==
    /\ now < MaxCronTime
    /\ ~Runnable
    /\ now' = now + 1
    /\ UNCHANGED <<registry_vars, cron_vars, webhook_vars>>

\* The steps of tick loop l.
LoopStep(l) ==
    \/ loop_check_flag(l)
    \/ loop_lock_jobs(l)
    \/ loop_scan(l)
    \/ cron_handler_ok(l)
    \/ cron_handler_err(l)
    \/ cron_handler_panic(l)
    \/ loop_wake(l)

\* ------------------------------------------------------ webhook dispatcher
Paths == {"pay", "ship"}
Secrets == {"s3cret"}
\* JSON values that callers post as payload.
WebhookPayloads == {"amount_100", "amount_200"}
\* Handlers a host registers: a function of the payload.
\*   echo  returns Ok(payload)        fail  returns Err("nope")
\*   boom  panics
WebhookHandlers == {"echo", "fail", "boom"}
\* WebhookHandler: what a call of the handler on `payload` produces.
WebhookHandler(h, payload) ==
    CASE h = "echo" -> [kind |-> "Ok", value |-> payload]
      [] h = "fail" -> [kind |-> "Err", value |-> "nope"]
      [] OTHER      -> [kind |-> "Panic", value |-> "boom"]

\* serde_json::Value::to_string: the JSON text of a value.
to_string(payload) == <<"json", payload>>
\* HMAC-SHA256 of a message under a key, as an injective function of both.
hmac_sha256(key, message) == <<"hmac", key, message>>
\* hex::encode: the lower-case hexadecimal text of the bytes.
hex_encode(bytes) == <<"hex", bytes>>

\* validate_signature with a comparison that accepts every signature.
validate_signature_any(signature, secret, payload) ==
    signature = signature
\* validate_signature: the signature is the hex text of the HMAC of the
\* payload's JSON text under the secret.
validate_signature(signature, secret, payload) ==
    signature = hex_encode(hmac_sha256(secret, to_string(payload)))

\* Signatures a caller can send: none, or the right one for some payload.
Signatures ==
    {None} \cup {Some(hex_encode(hmac_sha256(key, to_string(payload)))) :
                    key \in Secrets, payload \in WebhookPayloads}

\* register_webhook up to the request for the write guard: the id is drawn
\* and the webhook built before the lock is asked for.
register_webhook(path, handler, secret, enabled) ==
    /\ next_webhook <= MaxWebhooks
    /\ LET id == next_webhook
           webhook == RegisteredWebhook(id, path, handler, secret, enabled)
       IN  /\ registering' = Insert(registering, id, webhook)
           /\ webhooks_lock' = [webhooks_lock EXCEPT !.waiting = @ \cup {id}]
    /\ next_webhook' = next_webhook + 1
    /\ UNCHANGED <<registry_vars, cron_vars, now, webhooks, request, webhook_ret>>

\* register_webhook under the write guard, without the check of the path.
register_webhook_insert_unchecked(id) ==
    /\ id \in DOMAIN registering
    /\ CanWriteQueued(webhooks_lock, id)
    /\ LET webhook == registering[id]
       IN  /\ webhooks' = Insert(webhooks, id, webhook)
           /\ webhook_ret' = WebhookRet("register_webhook", id, webhook.path, "Ok")
    /\ webhooks_lock' = [webhooks_lock EXCEPT !.waiting = @ \ {id}]
    /\ registering' = Remove(registering, id)
    /\ UNCHANGED <<registry_vars, cron_vars, now, next_webhook, request>>
\* register_webhook under the write guard: a path that any webhook of the map
\* has, enabled or not, is refused; else the webhook is inserted.
register_webhook_insert(id) ==
    /\ id \in DOMAIN registering
    /\ CanWriteQueued(webhooks_lock, id)
    /\ LET webhook == registering[id]
       IN  IF \E w \in DOMAIN webhooks : webhooks[w].path = webhook.path
           THEN /\ webhooks' = webhooks
                /\ webhook_ret' = WebhookRet("register_webhook", id, webhook.path,
                                             "already registered")
           ELSE /\ webhooks' = Insert(webhooks, id, webhook)
                /\ webhook_ret' = WebhookRet("register_webhook", id, webhook.path, "Ok")
    /\ webhooks_lock' = [webhooks_lock EXCEPT !.waiting = @ \ {id}]
    /\ registering' = Remove(registering, id)
    /\ UNCHANGED <<registry_vars, cron_vars, now, next_webhook, request>>

\* unregister_webhook that does not wait for the guards of the readers.
unregister_webhook_unguarded(id) ==
    /\ webhooks_lock.writer = None
    /\ IF id \in DOMAIN webhooks
       THEN /\ webhooks' = Remove(webhooks, id)
            /\ webhook_ret' = WebhookRet("unregister_webhook", id, webhooks[id].path, "Ok")
       ELSE /\ webhooks' = webhooks
            /\ webhook_ret' = WebhookRet("unregister_webhook", id, "", "not found")
    /\ UNCHANGED <<registry_vars, cron_vars, now, webhooks_lock, next_webhook,
                   registering, request>>
\* unregister_webhook: removes the webhook of this id under the write guard.
unregister_webhook(id) ==
    /\ CanWrite(webhooks_lock)
    /\ IF id \in DOMAIN webhooks
       THEN /\ webhooks' = Remove(webhooks, id)
            /\ webhook_ret' = WebhookRet("unregister_webhook", id, webhooks[id].path, "Ok")
       ELSE /\ webhooks' = webhooks
            /\ webhook_ret' = WebhookRet("unregister_webhook", id, "", "not found")
    /\ UNCHANGED <<registry_vars, cron_vars, now, webhooks_lock, next_webhook,
                   registering, request>>

\* get_webhook_paths: the paths of the enabled webhooks.
get_webhook_paths == {webhooks[id].path : id \in {w \in DOMAIN webhooks : webhooks[w].enabled}}

\* WebhookScheduler::routes: the one route the Dispatcher mounts.
WebhookScheduler_routes == {<<"POST", "/webhook/:path">>}
\* Router::nest: every route of the nested router under the prefix.
nest(prefix, nested) == {<<route[1], prefix \o route[2]>> : route \in nested}
\* SchedulerIntegration::routes: the routes of the Registry merged with the
\* routes of the Dispatcher nested under "/webhooks".
SchedulerIntegration_routes == routes \cup nest("/webhooks", WebhookScheduler_routes)

\* The segments of a route pattern.
Segments(pattern) ==
    CASE pattern = "/jobs"                   -> <<"jobs">>
      [] pattern = "/jobs/:id"               -> <<"jobs", ":id">>
      [] pattern = "/executions"             -> <<"executions">>
      [] pattern = "/executions/:id"         -> <<"executions", ":id">>
      [] pattern = "/webhook/:path"          -> <<"webhook", ":path">>
      [] pattern = "/webhooks/webhook/:path" -> <<"webhooks", "webhook", ":path">>
      [] pattern = "/webhooks/:path"         -> <<"webhooks", ":path">>
\* A segment that captures a parameter.
Captures == {":id", ":path"}
\* The router's matching of the segments of a URL against a pattern.
Matches_route(pattern, url) ==
    /\ Len(pattern) = Len(url)
    /\ \A i \in 1..Len(url) : pattern[i] \in Captures \/ pattern[i] = url[i]
\* The URLs callers post to: the one spec.md documents and the one under the
\* route of the Dispatcher.
Urls == {<<"webhooks", path>> : path \in Paths}
            \cup {<<"webhooks", "webhook", path>> : path \in Paths}

\* The answer of handle_webhook: always Json(..), which is HTTP 200.
handle_webhook(result) ==
    [code |-> 200,
     body |-> Some(IF result.kind = "Ok"
                   THEN result.value
                   ELSE WebhookResponse("error", "Webhook error: " \o result.value, None))]
\* The answer of the router when no route matches.
NoRoute == [code |-> 404, body |-> None]

\* handle_webhook_call returns `result` to handle_webhook, which answers.
Answered(req, result) ==
    [req EXCEPT !.pc = "done", !.result = Some(result),
                !.response = Some(handle_webhook(result))]

\* A POST arrives at the composed router, which dispatches it to
\* handle_webhook with the captured path, or answers that no route matches.
dispatch(r, url, body) ==
    /\ request[r].pc = "idle"
    /\ LET matched == {route \in SchedulerIntegration_routes :
                          route[1] = "POST" /\ Matches_route(Segments(route[2]), url)}
       IN  IF matched = {}
           THEN request' = [request EXCEPT ![r] =
                   [@ EXCEPT !.pc = "done", !.url = url, !.body = Some(body),
                             !.response = Some(NoRoute)]]
           ELSE request' = [request EXCEPT ![r] =
                   [@ EXCEPT !.pc = "call", !.url = url, !.body = Some(body),
                             !.path = url[Len(url)]]]
    /\ UNCHANGED <<registry_vars, cron_vars, now, webhooks, webhooks_lock,
                   next_webhook, registering, webhook_ret>>

\* handle_webhook_call up to the call of the handler: takes the read guard,
\* finds an enabled webhook of the path, validates the signature when the
\* webhook has a secret.  The guard is kept while the handler runs.
handle_webhook_call(r) ==
    /\ request[r].pc = "call"
    /\ CanRead(webhooks_lock)
    /\ LET path == request[r].path
           body == Unwrap(request[r].body)
           found == {id \in DOMAIN webhooks :
                        webhooks[id].path = path /\ webhooks[id].enabled}
           refused(message) ==
               /\ request' = [request EXCEPT ![r] = Answered(@, Err(message))]
               /\ UNCHANGED webhooks_lock
       IN  \/ /\ found = {}
              /\ refused("Webhook for path not found or disabled")
           \/ \E id \in found :
                LET webhook == webhooks[id]
                IN  IF webhook.secret # None /\ body.signature = None
                    THEN refused("Webhook signature required but not provided")
                    ELSE IF /\ webhook.secret # None
                            /\ ~validate_signature(Unwrap(body.signature),
                                                   Unwrap(webhook.secret), body.payload)
                    THEN refused("Invalid webhook signature")
                    ELSE /\ request' = [request EXCEPT ![r] =
                                [@ EXCEPT !.pc = "in_handler", !.webhook = Some(id)]]
                         /\ webhooks_lock' = [webhooks_lock EXCEPT
                                                 !.readers = @ \cup {r}]
    /\ UNCHANGED <<registry_vars, cron_vars, now, webhooks, next_webhook,
                   registering, webhook_ret>>

\* What the handler of the webhook that request r was matched to produces.
WebhookOutcome(r) ==
    WebhookHandler(webhooks[Unwrap(request[r].webhook)].handler,
                   Unwrap(request[r].body).payload)

\* The handler returns: Ok becomes the "success" response, Err becomes an
\* error of handle_webhook_call; the read guard is dropped.
webhook_handler_return(r) ==
    /\ request[r].pc = "in_handler"
    /\ WebhookOutcome(r).kind # "Panic"
    /\ LET outcome == WebhookOutcome(r)
           result == IF outcome.kind = "Ok"
                     THEN Ok(WebhookResponse("success", "Webhook executed successfully",
                                             Some(outcome.value)))
                     ELSE Err("Webhook execution failed: " \o outcome.value)
       IN  request' = [request EXCEPT ![r] = Answered(@, result)]
    /\ webhooks_lock' = [webhooks_lock EXCEPT !.readers = @ \ {r}]
    /\ UNCHANGED <<registry_vars, cron_vars, now, webhooks, next_webhook,
                   registering, webhook_ret>>

\* The handler panics: the task of the request unwinds, the read guard is
\* dropped and no answer is built.
webhook_handler_panic(r) ==
    /\ request[r].pc = "in_handler"
    /\ WebhookOutcome(r).kind = "Panic"
    /\ request' = [request EXCEPT ![r].pc = "panicked"]
    /\ webhooks_lock' = [webhooks_lock EXCEPT !.readers = @ \ {r}]
    /\ UNCHANGED <<registry_vars, cron_vars, now, webhooks, next_webhook,
                   registering, webhook_ret>>

\* ------------------------------------------------------------ specification
Parameters == {None} \cup {Some(p) : p \in Payloads}

\* The steps of the run_job callers and of their detached tasks.
Step(e) ==
    \/ create_execution_insert(e)
    \/ create_execution_link(e)
    \/ task_set_running(e)
    \/ task_get_handler(e)
    \/ handler_return(e)
    \/ handler_panic(e)
    \/ task_finalize(e)
    \/ task_update_job(e)

Next ==
    \/ Tick
    \/ \E name \in Names, description \in Descriptions,
          handler \in Handlers, enabled \in BOOLEAN :
            register_job(name, description, handler, enabled)
    \/ \E id \in AllIds : Nameable(id) /\ unregister_job(id)
    \/ \E id \in AllIds, enabled \in BOOLEAN :
            Nameable(id) /\ set_job_enabled(id, enabled)
    \/ \E id \in AllIds, parameters \in Parameters :
            Nameable(id) /\ next_exec <= MaxCalls /\ run_job(id, parameters)
    \/ \E e \in ExecIds : Step(e)

Spec == Init /\ [][Next]_vars

\* A host that registers jobs and runs them, with the scheduling the runtime
\* guarantees: a caller or a task whose next step needs a lock gets the lock
\* once it is free often enough (tokio's RwLock queues its waiters first-in
\* first-out), and a task that can run is run.  A handler is user code: that
\* it returns is no guarantee of the runtime.
Steady(e) ==
    \/ create_execution_insert(e)
    \/ create_execution_link(e)
    \/ task_set_running(e)
    \/ task_get_handler(e)
    \/ task_finalize(e)
    \/ task_update_job(e)

FairNext ==
    \/ \E name \in Names, description \in Descriptions,
          handler \in Handlers, enabled \in BOOLEAN :
            register_job(name, description, handler, enabled)
    \/ \E id \in AllIds : Nameable(id) /\ run_job(id, None)
    \/ \E e \in ExecIds : Step(e)

FairSpec ==
    /\ Init
    /\ [][FairNext]_vars
    /\ \A e \in ExecIds : SF_vars(Steady(e))

\* A host that registers an enabled job, disables it, unregisters it and
\* runs it, on a Registry built enabled, with the scheduling the runtime
\* guarantees and handlers that all come to an end.
ReturningInit ==
    /\ new({ApiSchedulerConfig(TRUE, FALSE)})
    /\ CronScheduler_new
    /\ WebhookScheduler_new
ReturningNext ==
    \/ \E name \in Names, description \in Descriptions, handler \in Handlers :
            register_job(name, description, handler, TRUE)
    \/ \E id \in JobIds : Nameable(id) /\ unregister_job(id)
    \/ \E id \in JobIds : Nameable(id) /\ set_job_enabled(id, FALSE)
    \/ \E id \in JobIds : Nameable(id) /\ run_job(id, None)
    \/ \E e \in ExecIds : Step(e)

ReturningSpec ==
    /\ ReturningInit
    /\ [][ReturningNext]_vars
    /\ \A e \in ExecIds : SF_vars(Steady(e))
    /\ \A e \in ExecIds : WF_vars(handler_return(e) \/ handler_panic(e))

\* A host that registers jobs and runs them on a Registry built with the
\* three limits set, while the clock advances.
LimitedNext ==
    \/ Tick
    \/ \E name \in Names, description \in Descriptions,
          handler \in Handlers, enabled \in BOOLEAN :
            register_job(name, description, handler, enabled)
    \/ \E id \in AllIds, parameters \in Parameters :
            Nameable(id) /\ next_exec <= MaxCalls /\ run_job(id, parameters)
    \/ \E e \in ExecIds : Step(e)

LimitedSpec == LimitedInit /\ [][LimitedNext]_vars

\* A host that manages jobs of several names and descriptions, and runs them.
ManagedNames == {"sync", "export"}
ManagedDescriptions == {None, Some("nightly")}
ManageNext ==
    \/ Tick
    \/ \E name \in ManagedNames, description \in ManagedDescriptions,
          handler \in Handlers, enabled \in BOOLEAN :
            register_job(name, description, handler, enabled)
    \/ \E id \in AllIds : Nameable(id) /\ unregister_job(id)
    \/ \E id \in AllIds, enabled \in BOOLEAN :
            Nameable(id) /\ set_job_enabled(id, enabled)
    \/ \E id \in AllIds :
            Nameable(id) /\ next_exec < MaxCalls /\ run_job(id, None)
    \/ \E e \in ExecIds : Step(e)

ManageSpec == Init /\ [][ManageNext]_vars

\* The Cron Engine under a host that adds and removes jobs, enables and
\* disables them, starts and stops the engine.
CronInit ==
    /\ new({ApiSchedulerConfig(TRUE, FALSE)})
    /\ CronScheduler_new
    /\ WebhookScheduler_new

CronNext ==
    \/ CronTick
    \/ \E schedule \in Schedules, handler \in CronHandlers, enabled \in BOOLEAN :
            next_cron_job <= MaxCronAdds
            /\ add_job(schedule, handler, enabled, FALSE)
    \/ add_job_push
    \/ \E id \in CronJobIds : id < next_cron_job /\ remove_job(id)
    \/ \E id \in CronJobIds, enabled \in BOOLEAN :
            id < next_cron_job /\ cron_set_job_enabled(id, enabled)
    \/ start
    \/ stop
    \/ stop_joined
    \/ stop_timeout
    \/ \E l \in LoopIds : LoopStep(l)

CronSpec == CronInit /\ [][CronNext]_vars

\* The scheduling the runtime guarantees under the Cron Engine: a task that
\* can run is run, a timer whose time has come fires, a waiter for a Mutex
\* that is free gets it, and the clock advances.  A handler is user code:
\* that it returns is no guarantee of the runtime.
LoopSteady(l) ==
    \/ loop_check_flag(l)
    \/ loop_lock_jobs(l)
    \/ loop_scan(l)
    \/ loop_wake(l)

CronFairSpec ==
    /\ CronInit
    /\ [][CronNext]_vars
    /\ WF_vars(CronTick)
    /\ WF_vars(add_job_push)
    /\ WF_vars(stop_joined)
    /\ WF_vars(stop_timeout)
    /\ \A l \in LoopIds : WF_vars(LoopSteady(l))

\* The Cron Engine under a host that adds enabled jobs that fire every second
\* and starts and stops the engine.
BusyNext ==
    \/ CronTick
    \/ \E handler \in CronHandlers :
            add_job("every_second", handler, TRUE, FALSE)
    \/ add_job_push
    \/ start
    \/ stop
    \/ stop_joined
    \/ stop_timeout
    \/ \E l \in LoopIds : LoopStep(l)

BusySpec == CronInit /\ [][BusyNext]_vars

\* The busy host under the scheduling the runtime guarantees.
BusyFairSpec ==
    /\ CronInit
    /\ [][BusyNext]_vars
    /\ WF_vars(CronTick)
    /\ WF_vars(add_job_push)
    /\ WF_vars(stop_joined)
    /\ WF_vars(stop_timeout)
    /\ \A l \in LoopIds : WF_vars(LoopSteady(l))

\* The facade under a host that registers enabled jobs and runs them, starts
\* and stops the schedulers: SchedulerIntegration::start and ::stop call
\* start and stop of the Cron Engine, to which this host adds no job: no tick
\* loop ends by the panic of a handler, so the wait of stop never ends before
\* its timeout.  The scheduling is the one the runtime guarantees, and every
\* handler comes to an end.
FacadeNext ==
    \/ CronTick
    \/ \E name \in Names, description \in Descriptions, handler \in Handlers :
            register_job(name, description, handler, TRUE)
    \/ \E id \in JobIds : Nameable(id) /\ next_exec < MaxCalls /\ run_job(id, None)
    \/ \E e \in ExecIds : Step(e)
    \/ start
    \/ stop
    \/ stop_timeout
    \/ \E l \in LoopIds : LoopSteady(l)

FacadeSpec ==
    /\ ReturningInit
    /\ [][FacadeNext]_vars
    /\ \A e \in ExecIds : SF_vars(Steady(e))
    /\ \A e \in ExecIds : WF_vars(handler_return(e) \/ handler_panic(e))
    /\ WF_vars(CronTick)
    /\ WF_vars(stop_timeout)
    /\ \A l \in LoopIds : WF_vars(LoopSteady(l))

\* The Webhook Dispatcher under a host that registers and unregisters
\* webhooks while callers post requests.
WebhookNext ==
    \/ \E path \in Paths, handler \in WebhookHandlers,
          secret \in {None} \cup {Some(k) : k \in Secrets}, enabled \in BOOLEAN :
            register_webhook(path, handler, secret, enabled)
    \/ \E id \in WebhookIds : register_webhook_insert(id)
    \/ \E id \in {UnknownWebhook} \cup WebhookIds :
            id < next_webhook /\ unregister_webhook(id)
    \/ \E r \in RequestIds, url \in Urls, payload \in WebhookPayloads,
          signature \in Signatures :
            dispatch(r, url, WebhookRequest(payload, signature))
    \/ \E r \in RequestIds : handle_webhook_call(r)
    \/ \E r \in RequestIds : webhook_handler_return(r)
    \/ \E r \in RequestIds : webhook_handler_panic(r)

WebhookSpec == CronInit /\ [][WebhookNext]_vars

\* ------------------------------------------------------------------- claims
Terminal == {"Completed", "Failed"}
Stored(e) == e \in DOMAIN executions
\* The task of e is past its handler block.
PastHandler(e) == task[e].pc \in {"finalize", "update_job", "done", "panicked"}
\* The handler was called for e and has returned Ok or Err.
HandlerReturned(e) == task[e].invoked > 0 /\ task[e].result # None

\* C1: run_job returns as soon as the Pending record is stored and never
\* waits for a handler: whenever some handler is still running, every run_job
\* call that has stored its record can take its last step and return.
RunJobNeverWaitsForHandler ==
    (\E t \in ExecIds : task[t].pc = "in_handler") =>
        \A c \in ExecIds :
            call[c].pc = "create_execution_jobs" => ENABLED create_execution_link(c)

\* C2: each run_job call that returned success leads to exactly one
\* invocation of the job's handler: never two, and not zero once the task is
\* past the block that calls the handler.
ExactlyOneInvocation ==
    \A e \in ExecIds :
        /\ task[e].invoked <= 1
        /\ (call[e].ret = Some("Ok") /\ PastHandler(e)) => task[e].invoked = 1

\* C3: the status of a record only moves along Pending -> Running ->
\* (Completed | Failed): a record enters the map as Pending, no step skips
\* Running or goes backwards, and a terminal status never changes.
StatusSteps ==
    {<<"Pending", "Running">>, <<"Running", "Completed">>, <<"Running", "Failed">>}

StatusMonotonic ==
    [][\A e \in ExecIds :
          /\ (~Stored(e) /\ e \in DOMAIN executions') =>
                executions'[e].status = "Pending"
          /\ (Stored(e) /\ e \in DOMAIN executions') =>
                \/ executions'[e].status = executions[e].status
                \/ <<executions[e].status, executions'[e].status>> \in StatusSteps]_vars

\* C3 witness: one execution has gone the whole path to Completed and another
\* the whole path to Failed.
StatusMonotonicWitness ==
    \E e, f \in ExecIds :
        /\ Stored(e) /\ executions[e].status = "Completed"
        /\ Stored(f) /\ executions[f].status = "Failed"

\* C4: for every stored record, end_time is set iff the status is Completed
\* or Failed, result is set iff it is Completed, error is set iff it is Failed.
OutcomeFieldsMatchStatus ==
    \A e \in DOMAIN executions :
        LET x == executions[e] IN
            /\ (x.end_time # None) <=> (x.status \in Terminal)
            /\ (x.result # None) <=> (x.status = "Completed")
            /\ (x.error # None) <=> (x.status = "Failed")

\* C4 witness: a Failed record next to a record that is not terminal.
OutcomeFieldsWitness ==
    \E e, f \in ExecIds :
        /\ Stored(e) /\ executions[e].status = "Failed"
        /\ executions[e].end_time # None /\ executions[e].error # None
        /\ Stored(f) /\ executions[f].status \notin Terminal

\* C5: every execution whose handler returned eventually has the terminal
\* status get_execution reports: Completed with the handler's value as result,
\* or Failed with the handler's message as error; run_job itself returned Ok.
Reported(e) ==
    /\ get_execution(e).res = "Ok"
    /\ call[e].ret = Some("Ok")
    /\ task[e].result # None
    /\ LET x == Unwrap(get_execution(e).val)
           r == Unwrap(task[e].result) IN
         IF r.kind = "Ok"
         THEN x.status = "Completed" /\ x.result = Some(r.value)
         ELSE x.status = "Failed" /\ x.error = Some(r.value)

HandlerOutcomeReported ==
    \A e \in ExecIds : HandlerReturned(e) ~> Reported(e)

\* Every run_job call made so far has returned and its task has run to its end.
Quiet ==
    \A e \in ExecIds :
        /\ call[e].pc \in {"idle", "returned"}
        /\ task[e].pc \in {"none", "done"}

\* C6: when unregister_job(id) returns success (the only step that takes a job
\* out of the map) the Registry holds no execution of that job, however many
\* runs of it came before: its history is empty and no execution id leads to a
\* record of it.  Stated for the case where every earlier run has finished.
UnregisterPurgesHistory ==
    [][\A id \in JobIds :
          (Quiet /\ id \in DOMAIN jobs /\ id \notin DOMAIN jobs') =>
              /\ list_execution_history(id)' = {}
              /\ \A e \in ExecIds :
                    get_execution(e)'.res = "Ok" =>
                        Unwrap(get_execution(e)'.val).job_id # id]_vars

\* C7: run_job on a job id that is not registered fails with NotFound, stores
\* no execution and spawns no task.
RunJobUnknownIsNotFound ==
    \A e \in ExecIds :
        (call[e].pc # "idle" /\ ~call[e].registered) =>
            /\ ~Stored(e)
            /\ task[e].pc = "none"
            /\ call[e].ret \subseteq {"NotFound"}

\* C8: run_job on a registered job whose enabled flag is false fails with
\* Disabled, stores no execution and never invokes the handler.
RunJobDisabledJobRefused ==
    \A e \in ExecIds :
        (call[e].pc # "idle" /\ call[e].registered /\ ~call[e].enabled) =>
            /\ ~Stored(e)
            /\ task[e].invoked = 0
            /\ call[e].ret \subseteq {"Disabled"}

\* C9: with the configuration's enabled flag false, register_job and run_job
\* fail with Disabled and leave the jobs map and the executions map as they are
\* (empty, as ApiScheduler::new made them).
DisabledRegistryRefuses ==
    ~config.enabled =>
        /\ jobs = EmptyMap
        /\ executions = EmptyMap
        /\ (ret.op = "register_job" => ret.res = "Disabled")
        /\ \A e \in ExecIds : call[e].ret \subseteq {"Disabled"}

\* C10: an execution whose handler panicked ends Failed, with end_time set
\* and the panic message as error; its task does not end with the record
\* still Running.
PanicBecomesFailed ==
    \A e \in ExecIds :
        task[e].pc = "panicked" =>
            /\ Stored(e)
            /\ executions[e].status = "Failed"
            /\ executions[e].end_time # None
            /\ executions[e].error = Some("boom")

\* The run_job call of e named a job that was registered and enabled.
Accepted(e) == call[e].pc # "idle" /\ call[e].registered /\ call[e].enabled
\* The handler of e ran, or has been running, for at least d seconds.
RanFor(e, d) ==
    /\ task[e].started # None
    /\ \/ task[e].execution_end # None
          /\ Unwrap(task[e].execution_end) - Unwrap(task[e].started) >= d
       \/ task[e].pc = "in_handler" /\ now - Unwrap(task[e].started) >= d

\* C11: with job_timeout_seconds configured, an execution whose handler had
\* not returned when the timeout expired is Failed with error "timeout" and
\* its end_time set, and it is so once its handler has returned and its task
\* has ended.
TimedOutStaysFailed ==
    \A e \in ExecIds :
        (/\ config.job_timeout_seconds # None
         /\ Accepted(e) /\ Stored(e)
         /\ task[e].pc = "done"
         /\ RanFor(e, Unwrap(config.job_timeout_seconds)))
        => /\ executions[e].status = "Failed"
           /\ executions[e].error = Some("timeout")
           /\ executions[e].end_time # None

\* The executions in status Running among those run_job accepted.
RunningNow ==
    {e \in DOMAIN executions : Accepted(e) /\ executions[e].status = "Running"}

\* C12: with max_concurrent_jobs = N configured, the number of executions in
\* status Running never exceeds N.
RunningNeverExceedsLimit ==
    config.max_concurrent_jobs # None =>
        Cardinality(RunningNow) <= Unwrap(config.max_concurrent_jobs)

\* C13: with max_history_size = H configured, each registered job has at most
\* H stored executions.
HistoryNeverExceedsLimit ==
    config.max_history_size # None =>
        \A id \in DOMAIN jobs :
            Cardinality(list_execution_history(id))
                <= Unwrap(config.max_history_size)

\* C14: for two executions of the same job, the one whose record is stored
\* first has the smaller or equal start_time: a record entering the executions
\* map has a start_time no earlier than that of any record of its job already
\* there, also when the two run_job calls overlap.
StartTimeFollowsInsertion ==
    [][\A e2 \in ExecIds :
         (~Stored(e2) /\ Stored(e2)' /\ Accepted(e2)) =>
            \A e1 \in DOMAIN executions :
               (Accepted(e1) /\ executions[e1].job_id = executions'[e2].job_id)
               => executions[e1].start_time <= executions'[e2].start_time]_vars

\* C15: after register_job, get_job of the returned id gives the projection
\* with that id and the name, description and enabled flag registered, and
\* keeps giving that id, name and description while the job is there; after
\* unregister_job succeeded, get_job of the id is NotFound from then on and a
\* second unregister_job of it is NotFound.
Registered(id) == id \in JobIds /\ id < next_job
RegisterGetUnregister ==
    [][/\ \A id \in JobIds :
            (id \notin DOMAIN jobs /\ id \in DOMAIN jobs') =>
               \E name \in ManagedNames, description \in ManagedDescriptions,
                  handler \in Handlers, enabled \in BOOLEAN :
                    /\ register_job(name, description, handler, enabled)
                    /\ ret' = Response("register_job", id, "Ok")
                    /\ get_job(id)' =
                         [res |-> "Ok",
                          val |-> Some([id |-> id, name |-> name,
                                        description |-> description,
                                        enabled |-> enabled,
                                        last_execution |-> None])]
       /\ \A id \in DOMAIN jobs \cap DOMAIN jobs' :
            /\ Unwrap(get_job(id).val).id = id
            /\ Unwrap(get_job(id)'.val).id = id
            /\ Unwrap(get_job(id)'.val).name = Unwrap(get_job(id).val).name
            /\ Unwrap(get_job(id)'.val).description
                 = Unwrap(get_job(id).val).description
            /\ (Unwrap(get_job(id)'.val).enabled
                  # Unwrap(get_job(id).val).enabled)
               => \E enabled \in BOOLEAN :
                     ret' = Response("set_job_enabled", id, "Ok")
       /\ \A id \in AllIds :
            (ret' # ret /\ ret' = Response("unregister_job", id, "Ok"))
            => (id \in DOMAIN jobs /\ get_job(id)'.res = "NotFound")
       /\ \A id \in JobIds :
            (Registered(id) /\ id \notin DOMAIN jobs) =>
               /\ get_job(id)' = [res |-> "NotFound", val |-> None]
               /\ (ret' # ret /\ ret'.op = "unregister_job" /\ ret'.id = id)
                    => ret'.res = "NotFound"]_vars

\* A job was registered, then unregistered, and a second unregister_job of
\* its id has returned.
RegisterGetUnregisterWitness ==
    /\ ret = Response("unregister_job", 1, "NotFound")
    /\ Registered(1)
    /\ get_job(1).res = "NotFound"

\* C16: a successful run_job returns the id of the execution it created, the
\* Registry mounts POST /jobs/:id/run and its 202 answer carries that id as
\* execution_id, and get_execution of the id gives a record with the job id
\* and the parameters of the call.
RunJobReturnsExecutionId ==
    \A e \in ExecIds :
        (Accepted(e) /\ call[e].pc = "returned" /\ call[e].ret = Some("Ok")) =>
            LET execution == Unwrap(call[e].execution)
                answer == http_run_job(execution.job_id, run_job_output(e))
            IN /\ run_job_output(e).execution_id = Some(e)
               /\ <<"POST", "/jobs/:id/run">> \in routes
               /\ answer.status = "ACCEPTED"
               /\ "execution_id" \in DOMAIN answer.body
               /\ get_execution(e).res = "Ok"
               /\ Unwrap(get_execution(e).val).job_id = execution.job_id
               /\ Unwrap(get_execution(e).val).parameters = execution.parameters

\* A tick loop invokes a handler in this step.
Invokes(l) == loop[l].pc # "in_handler" /\ loop'[l].pc = "in_handler"
\* stop has returned and start has not been called since.
Stopped == ~running /\ stopping.pc = "idle"

\* C17: once stop has returned, with Ok or after its timeout, no tick loop
\* invokes a cron handler until start is called again.
NoInvocationAfterStop ==
    [][\A l \in LoopIds : Invokes(l) => ~Stopped]_vars

\* C18: start on a running engine and stop on a stopped engine return Ok and
\* are no-ops: the second start spawns no tick loop and replaces no task
\* handle, the second stop changes no state.
StartStopIdempotent ==
    [][/\ (running /\ start) =>
            /\ cron_ret' = CronResponse("start", "Ok")
            /\ UNCHANGED <<cron_jobs, cron_jobs_lock, running, running_lock,
                           task_handle, loop, adding, stopping, next_cron_job>>
       /\ (Stopped /\ stop) =>
            /\ cron_ret' = CronResponse("stop", "Ok")
            /\ UNCHANGED <<cron_jobs, cron_jobs_lock, running, running_lock,
                           task_handle, loop, adding, stopping, next_cron_job>>
      ]_vars

\* The engine was started once, a first stop has taken the handle of its only
\* tick loop, and a stop has returned Ok with that loop still alive: a second
\* stop, on the stopped engine.
StartStopIdempotentWitness ==
    /\ cron_ret = CronResponse("stop", "Ok")
    /\ Stopped
    /\ loop[1].pc \notin {"none", "exited", "panicked"}
    /\ \A l \in LoopIds \ {1} : loop[l].pc = "none"

\* The number of times tick loop l has invoked the handler of job id in its
\* current tick.
Fires(l, id) ==
    Cardinality({k \in 1..Len(loop[l].fired) : loop[l].fired[k] = id})
\* next_run is unset or later than t.
After(next_run, t) == next_run = None \/ Unwrap(next_run) > t

\* C19: in one tick each enabled job that is due is invoked exactly once and
\* its next_run is then later than the tick's now: when the loop has gone
\* through the jobs and sleeps, no enabled job was invoked twice in the tick
\* and none is left with a next_run at or before the tick's now.
OneFirePerTick ==
    \A l \in LoopIds :
        loop[l].pc = "sleep" =>
            \A i \in 1..Len(cron_jobs) :
                cron_jobs[i].enabled =>
                    /\ Fires(l, cron_jobs[i].id) <= 1
                    /\ After(cron_jobs[i].next_run, loop[l].now)

\* C20: when a firing of a job is over, the job's next_run is the first fire
\* time of its schedule after that moment, or None if there is none; a job
\* whose schedule has no fire time ahead has next_run = None and no tick loop
\* invokes it.
NextRunIsLeastAfterFiring ==
    [][\A l \in LoopIds :
         /\ (loop[l].pc = "in_handler" /\ loop'[l].pc = "scan") =>
               cron_jobs'[loop[l].i].next_run
                   = upcoming(cron_jobs[loop[l].i].schedule, now)
         /\ \A i \in 1..Len(cron_jobs) :
               upcoming(cron_jobs[i].schedule, now) = None =>
                   /\ cron_jobs[i].next_run = None
                   /\ ~(loop[l].pc = "in_handler" /\ loop[l].i = i)
      ]_vars

\* Tick loop l comes back from the handler of a job in this step.
Returns(l) == loop[l].pc = "in_handler" /\ loop'[l].pc = "scan"

\* C21: when a cron handler returns an error the job stays enabled and its
\* last_run and next_run are written as after a successful firing: last_run
\* is the time of the return, next_run the first fire time after it.
HandlerErrorAdvancesNextRun ==
    [][\A l \in LoopIds :
         (Returns(l) /\ cron_jobs[loop[l].i].handler = "err") =>
            LET before == cron_jobs[loop[l].i]
                after == cron_jobs'[loop[l].i]
            IN /\ after.enabled = before.enabled
               /\ after.last_run = Some(now)
               /\ after.next_run = upcoming(before.schedule, now)]_vars

\* The last call that returned is set_job_enabled(id, FALSE), with success.
Disabled(id) ==
    cron_ret = [op |-> "set_job_enabled", id |-> id, enabled |-> FALSE,
                res |-> "Ok"]

\* C22: a tick loop invokes a job's handler only while the job is enabled: a
\* job added with enabled = false is never invoked, and no invocation of a
\* job starts while the last call that returned is a successful
\* set_job_enabled(id, false) of that job.
FiresOnlyWhileEnabled ==
    [][\A l \in LoopIds, id \in CronJobIds :
         (Invokes(l) /\ cron_jobs[loop'[l].i].id = id) =>
            /\ cron_jobs[loop'[l].i].enabled
            /\ ~Disabled(id)]_vars

\* C23: the tick loop advances the next_run of a disabled job: when the loop
\* has gone through the jobs of a tick and sleeps, every disabled job has a
\* next_run later than the tick's now, or None.
DisabledJobAdvances ==
    \A l \in LoopIds :
        loop[l].pc = "sleep" =>
            \A i \in 1..Len(cron_jobs) :
                ~cron_jobs[i].enabled =>
                    After(cron_jobs[i].next_run, loop[l].now)

\* C24: two invocations of the handler of one job never overlap: no two tick
\* loops are inside the handler of the same job at once.
NoSelfOverlap ==
    \A l1 \in LoopIds, l2 \in LoopIds :
        (/\ l1 # l2
         /\ loop[l1].pc = "in_handler"
         /\ loop[l2].pc = "in_handler")
        => cron_jobs[loop[l1].i].id # cron_jobs[loop[l2].i].id

\* Two tick loops are live on a running engine (a start after a stop that
\* timed out): one is inside a handler, the other is at the jobs Mutex.
NoSelfOverlapWitness ==
    /\ running
    /\ \E l1 \in LoopIds, l2 \in LoopIds :
          /\ loop[l1].pc = "in_handler"
          /\ loop[l2].pc = "lock_jobs"

\* C25: stop on a running engine clears the running flag and always returns:
\* while it waits for the tick loop the flag is clear, and it returns when
\* the loop task has ended or when its timeout has elapsed (a stop whose
\* deadline lies within the clock's range), whether handlers return or not.
StopAlwaysReturns ==
    /\ [](stopping.pc = "waiting" => ~running)
    /\ (stopping.pc = "waiting" /\ stopping.deadline <= MaxCronTime)
          ~> (stopping.pc = "idle" /\ cron_ret.op = "stop")

\* stop has returned by its timeout while the tick loop it waited for is
\* still inside a handler.
StopAlwaysReturnsWitness ==
    /\ cron_ret = CronResponse("stop", "Timeout")
    /\ stopping.pc = "idle"
    /\ \E l \in LoopIds : loop[l].pc = "in_handler"

\* An add_job call for the job of this id is waiting for the jobs Mutex.
Adding(id) == adding # NotAdding /\ Unwrap(adding).id = id
\* The clock has reached its last value while a tick loop sleeps.
ClockEnded ==
    /\ now = MaxCronTime
    /\ \E l \in LoopIds : loop[l].pc = "sleep" /\ cron_jobs_lock = Some(l)

\* C26: an add_job issued while the engine is running eventually returns the
\* id of the job, which the running tick loop then finds in the job list
\* (or the clock has ended under a sleeping loop).
AddedJobPickedUp ==
    \A id \in CronJobIds :
        (Adding(id) /\ running) ~> (~Adding(id) \/ ClockEnded)

\* No two enabled webhooks of the map have the same path.
NoSharedEnabledPath ==
    \A a, b \in DOMAIN webhooks :
        (a # b /\ webhooks[a].enabled /\ webhooks[b].enabled)
            => webhooks[a].path # webhooks[b].path
\* The register_webhook call that drew this id is decided in this step.
RegisterDecided(id) == id \in DOMAIN registering /\ id \notin DOMAIN registering'

\* C27: no two enabled webhooks ever share a path, and a register_webhook
\* call for a path that a webhook of the map already has is refused as
\* already registered and leaves the map as it was, whatever the order in
\* which concurrent calls get the write guard.
PathsStayUnique ==
    /\ []NoSharedEnabledPath
    /\ [][\A id \in WebhookIds :
            (/\ RegisterDecided(id)
             /\ \E w \in DOMAIN webhooks : webhooks[w].path = registering[id].path)
                => /\ webhook_ret' = WebhookRet("register_webhook", id,
                                                registering[id].path, "already registered")
                   /\ webhooks' = webhooks]_vars
\* The call that drew id 1 is refused because the call that drew id 2, made
\* while it waited, inserted the same path first.
PathsStayUniqueWitness ==
    /\ webhook_ret.op = "register_webhook"
    /\ webhook_ret.id = 1
    /\ webhook_ret.res = "already registered"
    /\ 2 \in DOMAIN webhooks
    /\ webhooks[2].path = webhook_ret.path

\* The error kind of a message of handle_webhook_call.
ErrorKind(message) ==
    CASE message = "Webhook for path not found or disabled" -> "NotFound"
      [] message \in {"Invalid webhook signature",
                      "Webhook signature required but not provided"} -> "Unauthorized"
      [] OTHER -> "HandlerFailed"
\* An enabled webhook is registered on the path of request r.
EnabledOnPath(r) ==
    \E id \in DOMAIN webhooks :
        webhooks[id].path = request[r].path /\ webhooks[id].enabled
\* An enabled webhook on the path of request r accepts its signature.
Authorized(r) ==
    \E id \in DOMAIN webhooks :
        LET webhook == webhooks[id]
            body == Unwrap(request[r].body)
        IN  /\ webhook.path = request[r].path
            /\ webhook.enabled
            /\ \/ webhook.secret = None
               \/ /\ body.signature # None
                  /\ Unwrap(body.signature)
                        = hex_encode(hmac_sha256(Unwrap(webhook.secret),
                                                 to_string(body.payload)))

\* C28: the handler is invoked for a request iff an enabled webhook is on
\* its path and has no secret or gets the signature that is the hex HMAC of
\* the payload under its secret; otherwise the call yields NotFound when no
\* enabled webhook is on the path and Unauthorized when the signature is
\* missing or wrong.
HandlerInvokedIffAuthorized ==
    [][\A r \in RequestIds :
        /\ (request[r].pc # "in_handler" /\ request'[r].pc = "in_handler")
              => (request[r].pc = "call" /\ Authorized(r))
        /\ (request[r].pc = "call" /\ request'[r].pc # "call")
              => IF Authorized(r)
                 THEN request'[r].pc = "in_handler"
                 ELSE /\ request'[r].pc = "done"
                      /\ Unwrap(request'[r].result).kind = "Err"
                      /\ ErrorKind(Unwrap(request'[r].result).value)
                            = IF EnabledOnPath(r) THEN "Unauthorized" ELSE "NotFound"
      ]_vars
\* The handler of a webhook with a secret runs for a signed request.
HandlerInvokedIffAuthorizedWitness ==
    \E r \in RequestIds :
        /\ request[r].pc = "in_handler"
        /\ webhooks[Unwrap(request[r].webhook)].secret # None
        /\ Unwrap(request[r].body).signature # None

\* C29: a request refused for an unknown or disabled path is answered 404,
\* one refused for its signature 401, and one whose handler returned an
\* error 200 with body status "error".
StatusSeparatesFailures ==
    \A r \in RequestIds :
        (/\ request[r].pc = "done"
         /\ request[r].result # None
         /\ Unwrap(request[r].result).kind = "Err")
            => LET kind == ErrorKind(Unwrap(request[r].result).value)
                   response == Unwrap(request[r].response)
               IN  /\ kind = "NotFound" => response.code = 404
                   /\ kind = "Unauthorized" => response.code = 401
                   /\ kind = "HandlerFailed"
                        => /\ response.code = 200
                           /\ Unwrap(response.body).status = "error"

\* C30: a POST to /webhooks/{path}, for a path a webhook is registered
\* under, is dispatched to handle_webhook with that path.
DocumentedUrlDispatches ==
    [][\A r \in RequestIds, path \in Paths :
        (/\ request[r].pc = "idle"
         /\ request'[r].pc # "idle"
         /\ request'[r].url = <<"webhooks", path>>
         /\ \E id \in DOMAIN webhooks : webhooks[id].path = path)
            => (request'[r].pc = "call" /\ request'[r].path = path)]_vars

\* What run_job and its task read of the jobs map: which jobs are there, the
\* handler and the flag of each.
RunJobView == [id \in DOMAIN jobs |-> <<jobs[id].handler, jobs[id].enabled>>]

LastExecutionIsMostRecent ==
    \A j \in DOMAIN jobs, e1, e2 \in DOMAIN executions :
        (/\ e1 < e2
         /\ executions[e1].job_id = j
         /\ executions[e2].job_id = j
         /\ task[e1].pc = "done"
         /\ task[e2].pc = "done")
            => /\ jobs[j].last_execution = Some(e2)
               /\ executions[e2].status \in Terminal

\* C33: while a handler of the Registry runs, its task holds no guard on the
\* jobs lock and none on the executions lock.
HandlerRunsUnlocked ==
    \A e \in ExecIds :
        task[e].pc = "in_handler"
            => /\ Detached(e) \notin jobs_lock.readers
               /\ jobs_lock.writer # Some(Detached(e))
               /\ executions_lock.writer # Some(Detached(e))
               /\ Detached(e) \notin executions_lock.readers

\* A run_job call that has started and not returned; a detached task that
\* has started and not ended.
CallOpen(e) == call[e].pc \in {"create_execution", "create_execution_jobs"}
TaskOpen(e) == task[e].pc \notin {"none", "done", "panicked"}

\* C36: when every handler comes to an end, every run_job call returns,
\* every detached task ends, and both locks are free again and again, so
\* that every other operation of the Registry gets its lock.
RegistryNeverDeadlocks ==
    /\ \A e \in ExecIds : CallOpen(e) ~> call[e].pc = "returned"
    /\ \A e \in ExecIds : TaskOpen(e) ~> ~TaskOpen(e)
    /\ []<>(jobs_lock = Unlocked /\ executions_lock = Unlocked)
\* A run_job call keeps the executions guard and waits for the jobs lock
\* that a running handler's task holds, while another task waits for the
\* executions lock.
RegistryNeverDeadlocksWitness ==
    \E e1, e2, e3 \in ExecIds :
        /\ call[e1].pc = "create_execution_jobs"
        /\ task[e2].pc = "in_handler"
        /\ task[e3].pc \in {"set_running", "finalize"}

\* C34: a tick loop holds the jobs Mutex only while it scans the jobs: not
\* while a handler runs and not while it sleeps.
TickLoopLocksOnlyToScan ==
    \A l \in LoopIds :
        loop[l].pc \in {"in_handler", "sleep"} => cron_jobs_lock # Some(l)

\* The task of tick loop l has been spawned and has not ended.
Live(l) == loop[l].pc \notin {"none", "exited", "panicked"}

\* C37: at most one tick loop task is live: while a tick loop is inside a
\* handler no other tick loop task is live, whatever start and stop calls
\* were made.
OneTickLoop ==
    \A l1, l2 \in LoopIds :
        (l1 # l2 /\ loop[l1].pc = "in_handler") => ~Live(l2)

\* C38: a stop that waits for the tick loop of an engine without any job (so
\* that no handler is ever slow) returns Ok, the loop having ended, and not
\* by its timeout.
StopJoinsPromptLoop ==
    [][(stopping.pc = "waiting" /\ stopping'.pc = "idle" /\ next_cron_job = 1)
          => /\ cron_ret' = CronResponse("stop", "Ok")
             /\ Finished(Unwrap(stopping.handle))]_vars

\* The last call that returned is remove_job(id), with success.
Removed(id) == cron_ret = CronJobResponse("remove_job", id, "Ok")
\* A tick loop is inside the handler of the job of this id.
InHandlerOf(id) ==
    \E l \in LoopIds :
        loop[l].pc = "in_handler" /\ loop[l].fired[Len(loop[l].fired)] = id

\* C39: remove_job of a job of the list returns Ok, and from then on get_job
\* finds nothing under the id and no tick loop is inside the job's handler;
\* remove_job of an id that is not in the list reports NotFound and leaves
\* the list as it was.
RemovedJobNeverFires ==
    /\ [][\A id \in CronJobIds :
            remove_job(id) =>
                IF cron_get_job(id) # None
                THEN cron_ret' = CronJobResponse("remove_job", id, "Ok")
                ELSE /\ cron_ret' = CronJobResponse("remove_job", id, "NotFound")
                     /\ cron_jobs' = cron_jobs]_vars
    /\ \A id \in CronJobIds :
            [](Removed(id) => [](cron_get_job(id) = None /\ ~InHandlerOf(id)))
\* A job that a tick loop has fired was removed, with the engine running and
\* its tick loop going on.
RemovedJobNeverFiresWitness ==
    \E id \in CronJobIds :
        /\ Removed(id)
        /\ running
        /\ \E l \in LoopIds : loop[l].pc = "scan" /\ loop[l].now > 1

\* A handler of webhook id is running for some request.
Invoking(id) ==
    \E r \in RequestIds : request[r].pc = "in_handler" /\ request[r].webhook = Some(id)
\* Some webhook of the map, enabled or not, has this path.
PathTaken(path) == \E w \in DOMAIN webhooks : webhooks[w].path = path

\* C40: when unregister_webhook removes a webhook it returns Ok, no handler
\* of that webhook is running and its path is free; a handler only ever runs
\* for a webhook that is registered, a request to a path that no webhook has
\* yields NotFound, and a register_webhook of a path that no webhook has
\* succeeds.
UnregisterQuiesces ==
    /\ [][\A id \in WebhookIds :
            (id \in DOMAIN webhooks /\ id \notin DOMAIN webhooks')
                => /\ webhook_ret' = WebhookRet("unregister_webhook", id,
                                                webhooks[id].path, "Ok")
                   /\ ~Invoking(id)'
                   /\ \A w \in DOMAIN webhooks' : webhooks'[w].path # webhooks[id].path
         ]_vars
    /\ [](\A id \in WebhookIds : Invoking(id) => id \in DOMAIN webhooks)
    /\ [][\A r \in RequestIds :
            (/\ request[r].pc = "call"
             /\ request'[r].pc # "call"
             /\ ~PathTaken(request[r].path))
                => /\ request'[r].pc = "done"
                   /\ Unwrap(request'[r].result).kind = "Err"
                   /\ ErrorKind(Unwrap(request'[r].result).value) = "NotFound"
         ]_vars
    /\ [][\A id \in WebhookIds :
            (/\ id \in DOMAIN registering
             /\ id \notin DOMAIN registering'
             /\ ~PathTaken(registering[id].path))
                => /\ webhook_ret' = WebhookRet("register_webhook", id,
                                                registering[id].path, "Ok")
                   /\ id \in DOMAIN webhooks'
         ]_vars
\* Webhook 1 served a request on a path and was unregistered, and webhook 2
\* was then registered on the same path.
UnregisterQuiescesWitness ==
    /\ DOMAIN webhooks = {2}
    /\ webhook_ret = WebhookRet("register_webhook", 2, webhooks[2].path, "Ok")
    /\ \E r \in RequestIds :
        /\ request[r].pc = "done"
        /\ request[r].webhook = Some(1)
        /\ request[r].path = webhooks[2].path

\* Execution e is stored and Pending or Running.
InFlight(e) == Stored(e) /\ executions[e].status \in {"Pending", "Running"}
\* Execution e has the terminal status of what its handler produces: Completed
\* for a value, Failed for an error or a panic.
Settled(e) ==
    /\ Stored(e)
    /\ LET x == executions[e]
           outcome == JobHandler(jobs[x.job_id].handler, x.parameters)
       IN  x.status = IF outcome.kind = "Ok" THEN "Completed" ELSE "Failed"

\* C31: no step of stop changes a job or an execution record, and an
\* execution that is Pending or Running while stop is under way reaches the
\* terminal status of its handler's outcome.
StopLeavesRegistryAlone ==
    /\ [][(stop \/ stop_timeout) => (jobs' = jobs /\ executions' = executions)]_vars
    /\ \A e \in ExecIds : (stopping.pc = "waiting" /\ InFlight(e)) ~> Settled(e)

====
